---------------------------- MODULE Spec2Model ----------------------------
(***************************************************************************)
(* WiFi provisioning over BLE on an ESP32 (UriShX/esp32_wifi_ble_advanced). *)
(*                                                                         *)
(* The model follows src/src/esp32_wifi_ble_config_advanced.cpp: the       *)
(* fields of Ble_WiFiManager, the Preferences store, the WiFi station and  *)
(* its event task, the mutex connStatSemaphore, and the four units that    *)
(* run the code: the Arduino main task (setup, loop), the WiFi event task  *)
(* (gotIP, lostCon), the notification task (sendBLEdata) and the BLE       *)
(* callback task (MyCallbackHandler::onWrite).  ble_WiFiManager.h holds    *)
(* the same handlers behind BleWifiConfigInterface.                        *)
(*                                                                         *)
(* setup(), loop(), gotIP, lostCon and connectWiFi name the fields without *)
(* an object and the callback classes name them through a member           *)
(* bleWifiManager; the model has one manager, the one all of them mean.    *)
(***************************************************************************)
EXTENDS Integers, Sequences, FiniteSets, TLC

(***************************************************************************)
(* Bounds of the model.                                                    *)
(***************************************************************************)
\* longest scan result handed to scanWiFi when it is checked on its own
MaxScan == 3
\* longest scan result in the concurrent specification
MaxScanConc == 1
\* most system events waiting for the WiFi event task
MaxEvents == 1
\* configuration writes the BLE client sends in the concurrent specification
MaxWrites == 1
\* restarts (reset directives) followed
MaxRestarts == 1
\* registrations of gotIP and lostCon that are told apart
MaxHandlers == 1
\* registrations of gotIP and lostCon that are told apart when the
\* controller is looked at without the notification task
MaxRegistrations == 2
\* longest text handed to the obfuscation loops when they run on their own
MaxXorLen == 3
\* longest scan result handed to the list read handler
MaxListScan == 11
\* latest millis() at which a list read is followed
MaxNow == 30000
\* the millis() at which a list read arrives when the handler runs next to
\* the main task
MaxNowUnits == 10500

(***************************************************************************)
(* Value domains.                                                          *)
(***************************************************************************)
\* SSIDs a scan can report; "" is a hidden network (scanNetworks is called
\* with show_hidden = true)
ScanSsids == {"", "A", "B", "C"}
\* signal strengths a scan can report, in dBm
Rssis == {-50, -40}
\* what an int8_t local may hold before its first assignment
Int8Garbage == {-128, 127}
\* wifi_auth_mode_t values used: 0 is open, 3 is WPA2_PSK
AuthModes == {0, 3}

\* assignment of an int32_t RSSI to an int8_t local
ToInt8(x) == ((x + 128) % 256) - 128

(***************************************************************************)
(* scanWiFi: matching of the scan result against the two configured SSIDs. *)
(***************************************************************************)
\* strcmp(&ssid[0], &ssidPrim[0]) == 0 on two Arduino Strings
StrCmpEq(a, b) == a = b

\* the locals of scanWiFi before the loop; rssiPrim and rssiSec are declared
\* without an initial value, g is what they happen to hold
ScanLocals(g) ==
    [foundAP |-> 0, foundPrim |-> FALSE, rssiPrim |-> g[1], rssiSec |-> g[2]]

\* one pass of the for loop over scan entry ap
ScanMatch(acc, ap, sp, ss) ==
    LET a1 == IF StrCmpEq(ap.ssid, sp)
              THEN [acc EXCEPT !.foundAP = (@ + 1) % 256,
                               !.foundPrim = TRUE,
                               !.rssiPrim = ToInt8(ap.rssi)]
              ELSE acc
    IN  IF StrCmpEq(ap.ssid, ss)
        THEN [a1 EXCEPT !.foundAP = (@ + 1) % 256,
                        !.rssiSec = ToInt8(ap.rssi)]
        ELSE a1

\* for (int index = 0; index < apNum; index++)
RECURSIVE ScanLoop(_, _, _, _, _, _)
ScanLoop(aps, index, n, acc, sp, ss) ==
    IF index < n
    THEN ScanLoop(aps, index + 1, n, ScanMatch(acc, aps[index + 1], sp, ss), sp, ss)
    ELSE acc

\* switch (foundAP): the value returned and the new usePrimAP
ScanSelectMutGeq(acc, use) ==
    CASE acc.foundAP = 0 -> [result |-> FALSE, usePrimAP |-> use]
      [] acc.foundAP = 1 -> [result |-> TRUE, usePrimAP |-> acc.foundPrim]
      [] OTHER -> [result |-> TRUE, usePrimAP |-> (acc.rssiPrim >= acc.rssiSec)]

ScanSelectMutSwap(acc, use) ==
    CASE acc.foundAP = 0 -> [result |-> FALSE, usePrimAP |-> use]
      [] acc.foundAP = 1 -> [result |-> TRUE, usePrimAP |-> acc.foundPrim]
      [] OTHER -> [result |-> TRUE, usePrimAP |-> (acc.rssiPrim < acc.rssiSec)]

ScanSelectMutDefault(acc, use) ==
    CASE acc.foundAP = 0 -> [result |-> FALSE, usePrimAP |-> TRUE]
      [] acc.foundAP = 1 -> [result |-> TRUE, usePrimAP |-> acc.foundPrim]
      [] OTHER -> [result |-> TRUE, usePrimAP |-> (acc.rssiPrim > acc.rssiSec)]

ScanSelect(acc, use) ==
    CASE acc.foundAP = 0 -> [result |-> FALSE, usePrimAP |-> use]
      [] acc.foundAP = 1 -> [result |-> TRUE, usePrimAP |-> acc.foundPrim]
      [] OTHER -> [result |-> TRUE, usePrimAP |-> (acc.rssiPrim > acc.rssiSec)]

\* what WiFi.scanNetworks can hand back: a failure code (WIFI_SCAN_RUNNING -1,
\* WIFI_SCAN_FAILED -2) with no entries, or a list of networks
ScanEntries(ssids, rssis, auths) == [ssid : ssids, rssi : rssis, enc : auths]

ScanLists(max, ssids, rssis, auths) ==
    UNION {[1..k -> ScanEntries(ssids, rssis, auths)] : k \in 0..max}

ScanFound(max, ssids, rssis, auths) ==
    {[n |-> Len(l), aps |-> l] : l \in ScanLists(max, ssids, rssis, auths)}

ScanFailed == {[n |-> c, aps |-> <<>>] : c \in {-1, -2}}

ScanResults(max, ssids, rssis, auths) ==
    ScanFound(max, ssids, rssis, auths) \cup ScanFailed

\* actualWiFiScan's return value: "return false" for 0 networks, else _apNum
ActualWiFiScanReturn(r) == IF r.n = 0 THEN 0 ELSE r.n


(***************************************************************************)
(* The obfuscation of the configuration characteristic: a repeating-key    *)
(* XOR with the device name apName.                                        *)
(***************************************************************************)
\* a ^ b on the low n bits
RECURSIVE XorBits(_, _, _)
XorBits(a, b, n) ==
    IF n = 0 THEN 0
    ELSE (((a % 2) + (b % 2)) % 2) + 2 * XorBits(a \div 2, b \div 2, n - 1)

\* (char)value[index] ^ (char)apName[keyIndex]
XorByte(a, b) == XorBits(a, b, 8)

\* createName(): "ESP32-" followed by the chip id in upper-case hex; the
\* device modelled has chip id 0xA1, so apName is "ESP32-A1"
apName == <<69, 83, 80, 51, 50, 45, 65, 49>>

RECURSIVE XorLoopMutWrap(_, _, _, _)
XorLoopMutWrap(value, key, index, keyIndex) ==
    IF index < Len(value)
    THEN XorLoopMutWrap([value EXCEPT ![index + 1] = XorByte(@, key[keyIndex + 1])],
                        key, index + 1,
                        IF keyIndex + 1 >= Len(key) THEN Len(key) - 1
                        ELSE keyIndex + 1)
    ELSE value

\* the decode loop of onWrite: keyIndex goes back to 0 when it reaches the
\* key length
RECURSIVE XorLoop(_, _, _, _)
XorLoop(value, key, index, keyIndex) ==
    IF index < Len(value)
    THEN XorLoop([value EXCEPT ![index + 1] = XorByte(@, key[keyIndex + 1])],
                 key, index + 1,
                 IF keyIndex + 1 >= Len(key) THEN 0 ELSE keyIndex + 1)
    ELSE value

XorKey(value, key) == XorLoop(value, key, 0, 0)

\* the encode loop of onRead on the String wifiCredentials
RECURSIVE XorEncodeLoop(_, _, _, _)
XorEncodeLoop(text, key, index, keyIndex) ==
    IF index < Len(text)
    THEN LET coded == [text EXCEPT ![index + 1] = XorByte(@, key[keyIndex + 1])]
             next == keyIndex + 1
         IN  XorEncodeLoop(coded, key, index + 1,
                           IF next >= Len(key) THEN 0 ELSE next)
    ELSE text

XorEncodeMutPlain(text, key) == text

XorEncode(text, key) == XorEncodeLoop(text, key, 0, 0)

\* the loops are not being run on their own
NoCodec == [pc |-> "off", key |-> <<>>, src |-> <<>>, buf |-> <<>>]

(***************************************************************************)
(* The JSON text of a configuration message.  The text is kept at the      *)
(* level of its tokens, one byte each: '{', then key and value tokens in   *)
(* turn, then '}'.  jsonBuffer.parseObject is ArduinoJson's parser.        *)
(***************************************************************************)
\* the byte of each key token
KeyToken ==
    [ssidPrim |-> 1, pwPrim |-> 2, ssidSec |-> 3, pwSec |-> 4,
     erase |-> 5, reset |-> 6, other |-> 7]

KeyNames == DOMAIN KeyToken

\* the byte of each value token and the text as<String>() gives for it; 34
\* (the double quote) stands for the empty string ""
ValueText ==
    (34 :> "") @@ (65 :> "A") @@ (66 :> "B") @@ (67 :> "C") @@
    (112 :> "p") @@ (113 :> "q") @@ (114 :> "r") @@
    (116 :> "true") @@ (102 :> "false")

ValueToken(s) == CHOOSE b \in DOMAIN ValueText : ValueText[b] = s

KeyOfToken(b) == CHOOSE k \in KeyNames : KeyToken[k] = b

\* the text as a C string: parseObject((char *)&value[0]) stops at a NUL
RECURSIVE CStr(_)
CStr(bytes) ==
    IF bytes = <<>> \/ Head(bytes) = 0 THEN <<>>
    ELSE <<Head(bytes)>> \o CStr(Tail(bytes))

\* parseObject: success() and the object read, a function from the keys
\* present to their values (a key given twice keeps its last value)
JsonParse(bytes) ==
    LET t == CStr(bytes)
        n == (Len(t) - 2) \div 2
        wellFormed ==
            /\ Len(t) >= 2
            /\ t[1] = 123
            /\ t[Len(t)] = 125
            /\ ((Len(t) - 2) % 2) = 0
            /\ \A i \in 1..n :
                  /\ t[2 * i] \in {KeyToken[k] : k \in KeyNames}
                  /\ t[2 * i + 1] \in DOMAIN ValueText
        keys == {KeyOfToken(t[2 * i]) : i \in 1..n}
        last(k) == CHOOSE i \in 1..n :
                      /\ t[2 * i] = KeyToken[k]
                      /\ \A j \in 1..n : t[2 * j] = KeyToken[k] => j <= i
    IN  IF wellFormed
        THEN [ok |-> TRUE, obj |-> [k \in keys |-> ValueText[t[2 * last(k) + 1]]]]
        ELSE [ok |-> FALSE, obj |-> <<>>]

\* the text a client sends for a sequence of <<key, value>> pairs
RECURSIVE JsonPairs(_)
JsonPairs(pairs) ==
    IF pairs = <<>> THEN <<>>
    ELSE <<KeyToken[Head(pairs)[1]], ValueToken(Head(pairs)[2])>>
            \o JsonPairs(Tail(pairs))

JsonText(pairs) == <<123>> \o JsonPairs(pairs) \o <<125>>

\* jsonOut.printTo(wifiCredentials) in onRead: the object created with the
\* members ssidPrim, pwPrim, ssidSec, pwSec, in that order, as text
JsonPrintTo(sp, pp, ss, ps) ==
    <<123, KeyToken.ssidPrim, ValueToken(sp), KeyToken.pwPrim, ValueToken(pp),
      KeyToken.ssidSec, ValueToken(ss), KeyToken.pwSec, ValueToken(ps), 125>>

\* the credential-set message of c = <<ssidPrim, pwPrim, ssidSec, pwSec>>
CredPairs(c) ==
    << <<"ssidPrim", c[1]>>, <<"pwPrim", c[2]>>,
       <<"ssidSec", c[3]>>, <<"pwSec", c[4]>> >>

\* messages of the other shapes a client can send
DirectivePairs ==
    { << <<"erase", "true">> >>, << <<"erase", "false">> >>,
      << <<"reset", "true">> >>, << <<"reset", "false">> >> }

OddPairs ==
    { <<>>,
      << <<"other", "A">> >>,
      << <<"ssidPrim", "A">>, <<"pwPrim", "p">>, <<"ssidSec", "B">> >>,
      << <<"pwSec", "q">> >> }

\* payloads that do not decode to JSON text: an object that is not closed,
\* text that does not open an object, bytes sent without obfuscation
JunkPayloads ==
    { XorKey(<<123, 1, 65>>, apName),
      XorKey(<<65, 66>>, apName),
      <<123, 5, 116, 125>> }

\* what the client writes to the characteristic: the obfuscated texts, the
\* junk, and the empty value
WritePayloads(credSets, others, junk) ==
    {XorKey(JsonText(CredPairs(c)), apName) : c \in credSets}
        \cup {XorKey(JsonText(m), apName) : m \in others}
        \cup junk

\* the writes of the concurrent specification: two credential sets, an
\* erase, a reset and a message of no known shape
ConcCreds == { <<"A", "p", "B", "q">>, <<"B", "q", "C", "r">> }

ConcWrites ==
    WritePayloads(ConcCreds,
                  { << <<"erase", "true">> >>, << <<"reset", "true">> >>,
                    << <<"other", "A">> >> },
                  {})

\* the writes of the credential specification: every credential set over
\* the value domain, empty fields included, every directive, the odd
\* messages, the junk and the empty value
CredSsids == {"", "A", "B"}
CredPws == {"", "p"}
AllCreds == CredSsids \X CredPws \X CredSsids \X CredPws

AllWrites == WritePayloads(AllCreds, DirectivePairs \cup OddPairs,
                           JunkPayloads \cup {<<>>})

\* onWrite's decode loop and parseObject on each payload a client sends
\* (worked out once per payload)
DecodedPayload ==
    [value \in ConcWrites \cup AllWrites |-> JsonParse(XorKey(value, apName))]

(***************************************************************************)
(* The Preferences namespace "WiFiCred".  A key that is absent reads as    *)
(* its default ("" or false), so the store is kept as the values read.     *)
(***************************************************************************)
NoPrefs ==
    [valid |-> FALSE, ssidPrim |-> "", ssidSec |-> "", pwPrim |-> "", pwSec |-> ""]


(***************************************************************************)
(* State.                                                                  *)
(***************************************************************************)
VARIABLES
    \* fields of Ble_WiFiManager
    ssidPrim, pwPrim, ssidSec, pwSec,
    hasCredentials, usePrimAP, apNum, apScanTime,
    isConnected, connStatusChanged, deviceConnected, sendVal,
    \* the Preferences namespace, kept in flash
    prefs,
    \* the WiFi library: the entries of the last scan, the attempts and
    \* associations of the station, the system events waiting for the event
    \* task, and how often gotIP and lostCon have been registered
    wifiAps, sta, evQueue, nHandlers,
    \* connStatSemaphore: "free" or the task that holds it
    sem,
    \* the status characteristic: its value and descriptor 0x2902
    statusChar, notifyEnabled,
    \* main task: position, result of scanWiFi, where scan and connect return to
    pcMain, scanFound, mainRet,
    \* WiFi event task: position, event being delivered, handler runs left,
    \* connectedSSID of gotIP
    pcEvt, evKind, evLeft, connectedSSID,
    \* notification task: position and notificationFlag
    pcNotify, notificationFlag,
    \* BLE callback task: position inside onWrite
    pcBle,
    \* millis()
    now,
    \* the value of the configuration characteristic, as the client wrote it
    wifiChar,
    \* bookkeeping of the environment: writes sent and restarts so far
    nWrites, nRestarts,
    \* what the last read of the configuration characteristic returned, the
    \* value of the list characteristic, and the local counter of the list
    \* read handler
    wifiRead, listChar, counter,
    \* the obfuscation loops run on their own: key, text, buffer, position
    codec

credVars == <<ssidPrim, pwPrim, ssidSec, pwSec>>
fieldVars == <<hasCredentials, usePrimAP, apNum, apScanTime,
               isConnected, connStatusChanged, deviceConnected, sendVal>>
wifiVars == <<wifiAps, sta, evQueue, nHandlers>>
bleVars == <<statusChar, notifyEnabled>>
mainVars == <<pcMain, scanFound, mainRet>>
evtVars == <<pcEvt, evKind, evLeft, connectedSSID>>
notifyVars == <<pcNotify, notificationFlag>>
bleTaskVars == <<pcBle>>
envVars == <<now, wifiChar, nWrites, nRestarts>>
readVars == <<wifiRead, listChar, counter, codec>>

vars == <<credVars, fieldVars, prefs, wifiVars, sem, bleVars, mainVars,
          evtVars, notifyVars, bleTaskVars, envVars, readVars>>

\* the memory of the device when setup() reaches the Preferences block: the
\* member initialisers, the mutex created, the notification task started
RamInit ==
    [ssidPrim |-> "", pwPrim |-> "", ssidSec |-> "", pwSec |-> "",
     hasCredentials |-> FALSE, usePrimAP |-> TRUE, apNum |-> 0,
     isConnected |-> FALSE, connStatusChanged |-> FALSE,
     deviceConnected |-> FALSE, sendVal |-> 0]

StoredMutSwap(c) ==
    [valid |-> TRUE, ssidPrim |-> c[1], ssidSec |-> c[3],
     pwPrim |-> c[4], pwSec |-> c[2]]

\* the Preferences namespace after the putString and putBool calls of
\* onWrite on the set c = <<ssidPrim, pwPrim, ssidSec, pwSec>>
Stored(c) ==
    [valid |-> TRUE, ssidPrim |-> c[1], ssidSec |-> c[3],
     pwPrim |-> c[2], pwSec |-> c[4]]

InitState(flash) ==
    /\ ssidPrim = RamInit.ssidPrim /\ pwPrim = RamInit.pwPrim
    /\ ssidSec = RamInit.ssidSec /\ pwSec = RamInit.pwSec
    /\ hasCredentials = RamInit.hasCredentials
    /\ usePrimAP = RamInit.usePrimAP
    /\ apNum = RamInit.apNum
    /\ apScanTime = 0
    /\ isConnected = RamInit.isConnected
    /\ connStatusChanged = RamInit.connStatusChanged
    /\ deviceConnected = RamInit.deviceConnected
    /\ sendVal = RamInit.sendVal
    /\ prefs \in flash
    /\ wifiAps = <<>> /\ sta = <<>> /\ evQueue = <<>> /\ nHandlers = 0
    /\ sem = "free"
    /\ statusChar = 0 /\ notifyEnabled = 0
    /\ pcMain = "setup" /\ scanFound = FALSE /\ mainRet = "loop"
    /\ pcEvt = "idle" /\ evKind = "none" /\ evLeft = 0 /\ connectedSSID = ""
    /\ pcNotify = "wait" /\ notificationFlag = FALSE
    /\ pcBle = "idle"
    /\ now = 0
    /\ wifiChar = <<>>
    /\ nWrites = 0 /\ nRestarts = 0
    /\ wifiRead = <<>> /\ listChar = <<>> /\ counter = 0

InitWith(flash) == InitState(flash) /\ codec = NoCodec

RestartMutWipe ==
    /\ nRestarts < MaxRestarts
    /\ nRestarts' = nRestarts + 1
    /\ ssidPrim' = RamInit.ssidPrim /\ pwPrim' = RamInit.pwPrim
    /\ ssidSec' = RamInit.ssidSec /\ pwSec' = RamInit.pwSec
    /\ hasCredentials' = RamInit.hasCredentials
    /\ usePrimAP' = RamInit.usePrimAP
    /\ apNum' = RamInit.apNum
    /\ apScanTime' = 0
    /\ isConnected' = RamInit.isConnected
    /\ connStatusChanged' = RamInit.connStatusChanged
    /\ deviceConnected' = RamInit.deviceConnected
    /\ sendVal' = RamInit.sendVal
    /\ wifiAps' = <<>> /\ sta' = <<>> /\ evQueue' = <<>> /\ nHandlers' = 0
    /\ sem' = "free"
    /\ statusChar' = 0 /\ notifyEnabled' = 0
    /\ pcMain' = "setup" /\ scanFound' = FALSE /\ mainRet' = "loop"
    /\ pcEvt' = "idle" /\ evKind' = "none" /\ evLeft' = 0 /\ connectedSSID' = ""
    /\ pcNotify' = "wait" /\ notificationFlag' = FALSE
    /\ pcBle' = "idle"
    /\ now' = 0
    /\ wifiChar' = <<>>
    /\ wifiRead' = <<>> /\ listChar' = <<>> /\ counter' = 0
    /\ prefs' = NoPrefs
    /\ UNCHANGED <<nWrites, codec>>

\* esp_restart(): the memory is lost, the flash is kept
Restart ==
    /\ nRestarts < MaxRestarts
    /\ nRestarts' = nRestarts + 1
    /\ ssidPrim' = RamInit.ssidPrim /\ pwPrim' = RamInit.pwPrim
    /\ ssidSec' = RamInit.ssidSec /\ pwSec' = RamInit.pwSec
    /\ hasCredentials' = RamInit.hasCredentials
    /\ usePrimAP' = RamInit.usePrimAP
    /\ apNum' = RamInit.apNum
    /\ apScanTime' = 0
    /\ isConnected' = RamInit.isConnected
    /\ connStatusChanged' = RamInit.connStatusChanged
    /\ deviceConnected' = RamInit.deviceConnected
    /\ sendVal' = RamInit.sendVal
    /\ wifiAps' = <<>> /\ sta' = <<>> /\ evQueue' = <<>> /\ nHandlers' = 0
    /\ sem' = "free"
    /\ statusChar' = 0 /\ notifyEnabled' = 0
    /\ pcMain' = "setup" /\ scanFound' = FALSE /\ mainRet' = "loop"
    /\ pcEvt' = "idle" /\ evKind' = "none" /\ evLeft' = 0 /\ connectedSSID' = ""
    /\ pcNotify' = "wait" /\ notificationFlag' = FALSE
    /\ pcBle' = "idle"
    /\ now' = 0
    /\ wifiChar' = <<>>
    /\ wifiRead' = <<>> /\ listChar' = <<>> /\ counter' = 0
    /\ UNCHANGED <<prefs, nWrites, codec>>


(***************************************************************************)
(* The WiFi station.  sta holds the attempts and associations in flight,   *)
(* one record each; WiFi.begin adds one, WiFi.disconnect drops them all    *)
(* and, when there was one, the stack raises SYSTEM_EVENT_STA_DISCONNECTED.*)
(***************************************************************************)
Min(a, b) == IF a < b THEN a ELSE b

WiFiDisconnectMutKeep(s) == s

\* WiFi.disconnect(true): what is left of the station's links
WiFiDisconnect(s) == <<>>

\* the event queue after WiFi.disconnect(true) on station s
DisconnectEvents(q, s) == IF s # <<>> THEN Append(q, "DISCONNECTED") ELSE q

\* room in the event queue for what a disconnect raises
DisconnectRoom == sta = <<>> \/ Len(evQueue) < MaxEvents

\* WiFi.SSID(): the SSID of the association, "" when there is none
WiFiSSID(s) ==
    IF \E i \in 1..Len(s) : s[i].st = "connected"
    THEN s[CHOOSE i \in 1..Len(s) : s[i].st = "connected"].ssid
    ELSE ""

(***************************************************************************)
(* Main task: setup().                                                     *)
(***************************************************************************)
\* the test of the stored set in setup(): pwPrim is tested twice and pwSec
\* is not tested
CredentialsInvalid(sp, pp, ss, ps) == sp = "" \/ pp = "" \/ ss = "" \/ pp = ""

\* setup(), from preferences.begin to initBLE: load the stored set
SetupLoad ==
    /\ pcMain = "setup"
    /\ LET hasPref == prefs.valid
           sp == IF hasPref THEN prefs.ssidPrim ELSE ssidPrim
           ss == IF hasPref THEN prefs.ssidSec ELSE ssidSec
           pp == IF hasPref THEN prefs.pwPrim ELSE pwPrim
           ps == IF hasPref THEN prefs.pwSec ELSE pwSec
           has == IF hasPref /\ ~CredentialsInvalid(sp, pp, ss, ps)
                  THEN TRUE ELSE hasCredentials
       IN  /\ ssidPrim' = sp /\ ssidSec' = ss /\ pwPrim' = pp /\ pwSec' = ps
           /\ hasCredentials' = has
           /\ apScanTime' = IF has THEN now ELSE apScanTime
           /\ pcMain' = IF has THEN "scan" ELSE "loop"
    /\ mainRet' = "loop"
    /\ UNCHANGED <<usePrimAP, apNum, isConnected, connStatusChanged,
                   deviceConnected, sendVal, prefs, wifiVars, sem, bleVars,
                   scanFound, evtVars, notifyVars, bleTaskVars, envVars, readVars>>

(***************************************************************************)
(* Main task: scanWiFi().                                                  *)
(***************************************************************************)
scanWiFiMutFound(r, g, sp, ss, use) ==
    [apNum |-> ActualWiFiScanReturn(r), result |-> TRUE, usePrimAP |-> use]

\* scanWiFi() after actualWiFiScan has returned scan result r: the matching
\* loop and the switch, with g in the uninitialised locals
scanWiFi(r, g, sp, ss, use) ==
    LET n == ActualWiFiScanReturn(r)
        acc == ScanLoop(r.aps, 0, n, ScanLocals(g), sp, ss)
        sel == ScanSelect(acc, use)
    IN  [apNum |-> n, result |-> sel.result, usePrimAP |-> sel.usePrimAP]

\* actualWiFiScan() up to the call of WiFi.scanNetworks, which blocks
ScanStart ==
    /\ pcMain = "scan"
    /\ DisconnectRoom
    /\ sta' = WiFiDisconnect(sta)
    /\ evQueue' = DisconnectEvents(evQueue, sta)
    /\ apScanTime' = now
    /\ pcMain' = "scanning"
    /\ UNCHANGED <<credVars, hasCredentials, usePrimAP, apNum, isConnected,
                   connStatusChanged, deviceConnected, sendVal, prefs,
                   wifiAps, nHandlers, sem, bleVars, scanFound, mainRet,
                   evtVars, notifyVars, bleTaskVars, envVars, readVars>>

\* WiFi.scanNetworks returns one of results; the rest of scanWiFi()
ScanEnd(results) ==
    /\ pcMain = "scanning"
    /\ \E r \in results, g \in Int8Garbage \X Int8Garbage :
          LET out == scanWiFi(r, g, ssidPrim, ssidSec, usePrimAP)
          IN  /\ wifiAps' = r.aps
              /\ apNum' = out.apNum
              /\ usePrimAP' = out.usePrimAP
              /\ scanFound' = out.result
              /\ pcMain' = IF out.result THEN "connect" ELSE mainRet
    /\ UNCHANGED <<credVars, hasCredentials, apScanTime, isConnected,
                   connStatusChanged, deviceConnected, sendVal, prefs,
                   sta, evQueue, nHandlers, sem, bleVars, mainRet,
                   evtVars, notifyVars, bleTaskVars, envVars, readVars>>

(***************************************************************************)
(* Main task: connectWiFi().                                               *)
(***************************************************************************)
\* the station after the WiFi.disconnect(true) of connectWiFi
ConnectTeardown(s) == WiFiDisconnect(s)

ConnectTargetMutSwap(use, sp, pp, ss, ps) ==
    IF use THEN [st |-> "connecting", ssid |-> ss, pw |-> ps]
    ELSE [st |-> "connecting", ssid |-> sp, pw |-> pp]

\* the arguments of WiFi.begin
ConnectTarget(use, sp, pp, ss, ps) ==
    IF use THEN [st |-> "connecting", ssid |-> sp, pw |-> pp]
    ELSE [st |-> "connecting", ssid |-> ss, pw |-> ps]

\* if (scanWiFi()) taken; connectWiFi(): WiFi.onEvent twice,
\* WiFi.disconnect(true), enableSTA, mode; registrations beyond cap are not
\* told apart
ConnectWiFiTeardown(cap) ==
    /\ pcMain = "connect"
    /\ DisconnectRoom
    /\ nHandlers' = Min(nHandlers + 1, cap)
    /\ sta' = ConnectTeardown(sta)
    /\ evQueue' = DisconnectEvents(evQueue, sta)
    /\ scanFound' = FALSE
    /\ pcMain' = "begin"
    /\ UNCHANGED <<credVars, fieldVars, prefs, wifiAps, sem, bleVars,
                   mainRet, evtVars, notifyVars, bleTaskVars, envVars, readVars>>

\* connectWiFi(): WiFi.begin on the candidate usePrimAP selects
ConnectWiFiBegin ==
    /\ pcMain = "begin"
    /\ sta' = Append(sta, ConnectTarget(usePrimAP, ssidPrim, pwPrim, ssidSec, pwSec))
    /\ pcMain' = mainRet
    /\ UNCHANGED <<credVars, fieldVars, prefs, wifiAps, evQueue, nHandlers,
                   sem, bleVars, scanFound, mainRet, evtVars, notifyVars,
                   bleTaskVars, envVars, readVars>>

(***************************************************************************)
(* Main task: loop().                                                      *)
(***************************************************************************)
\* if (connStatusChanged), if (isConnected), if (hasCredentials)
LoopCheck ==
    /\ pcMain = "loop"
    /\ connStatusChanged
    /\ pcMain' = IF isConnected THEN "take"
                 ELSE IF hasCredentials THEN "scan" ELSE "clear"
    /\ mainRet' = "clear"
    /\ UNCHANGED <<credVars, fieldVars, prefs, wifiVars, sem, bleVars,
                   scanFound, evtVars, notifyVars, bleTaskVars, envVars, readVars>>

LoopTakeMutScan ==
    /\ pcMain = "take"
    /\ sem = "free"
    /\ sem' = "main"
    /\ pcMain' = "scan"
    /\ UNCHANGED <<credVars, fieldVars, prefs, wifiVars, bleVars, scanFound,
                   mainRet, evtVars, notifyVars, bleTaskVars, envVars, readVars>>

\* xSemaphoreTake(connStatSemaphore, portMAX_DELAY)
LoopTake ==
    /\ pcMain = "take"
    /\ sem = "free"
    /\ sem' = "main"
    /\ pcMain' = "give"
    /\ UNCHANGED <<credVars, fieldVars, prefs, wifiVars, bleVars, scanFound,
                   mainRet, evtVars, notifyVars, bleTaskVars, envVars, readVars>>

LoopGiveMutClear ==
    /\ pcMain = "give"
    /\ sem' = "free"
    /\ pcMain' = "clear"
    /\ connStatusChanged' = FALSE
    /\ UNCHANGED <<credVars, hasCredentials, usePrimAP, apNum, apScanTime,
                   isConnected, deviceConnected, sendVal, prefs, wifiVars,
                   bleVars, scanFound, mainRet, evtVars, notifyVars,
                   bleTaskVars, envVars, readVars>>

\* the test of sendVal for the log, then xSemaphoreGive
LoopGive ==
    /\ pcMain = "give"
    /\ sem' = "free"
    /\ pcMain' = "clear"
    /\ UNCHANGED <<credVars, fieldVars, prefs, wifiVars, bleVars, scanFound,
                   mainRet, evtVars, notifyVars, bleTaskVars, envVars, readVars>>

\* connStatusChanged = false
LoopClear ==
    /\ pcMain = "clear"
    /\ connStatusChanged' = FALSE
    /\ pcMain' = "loop"
    /\ UNCHANGED <<credVars, hasCredentials, usePrimAP, apNum, apScanTime,
                   isConnected, deviceConnected, sendVal, prefs, wifiVars,
                   sem, bleVars, scanFound, mainRet, evtVars, notifyVars,
                   bleTaskVars, envVars, readVars>>


(***************************************************************************)
(* WiFi event task: it takes one system event at a time and runs the       *)
(* handlers registered for it, gotIP for SYSTEM_EVENT_STA_GOT_IP and       *)
(* lostCon for SYSTEM_EVENT_STA_DISCONNECTED, once per registration.       *)
(***************************************************************************)
\* gotIP(): the status word after the comparison of connectedSSID
GotIPStatus(ssid, sp, ss, sv) ==
    IF ssid = sp THEN 1 ELSE IF ssid = ss THEN 2 ELSE sv

\* the event task takes the next event off its queue; an event nobody has
\* registered for is dropped
EvtPop ==
    /\ pcEvt = "idle"
    /\ evLeft = 0
    /\ evQueue # <<>>
    /\ evKind' = IF nHandlers = 0 THEN "none" ELSE Head(evQueue)
    /\ evQueue' = Tail(evQueue)
    /\ evLeft' = nHandlers
    /\ UNCHANGED <<credVars, fieldVars, prefs, wifiAps, sta, nHandlers, sem,
                   bleVars, mainVars, pcEvt, connectedSSID, notifyVars,
                   bleTaskVars, envVars, readVars>>

\* gotIP() up to xSemaphoreTake
GotIPEnter ==
    /\ pcEvt = "idle"
    /\ evLeft > 0
    /\ evKind = "GOT_IP"
    /\ isConnected' = TRUE
    /\ connStatusChanged' = TRUE
    /\ connectedSSID' = WiFiSSID(sta)
    /\ evLeft' = evLeft - 1
    /\ pcEvt' = "take"
    /\ UNCHANGED <<credVars, hasCredentials, usePrimAP, apNum, apScanTime,
                   deviceConnected, sendVal, prefs, wifiVars, sem, bleVars,
                   mainVars, evKind, notifyVars, bleTaskVars, envVars, readVars>>

\* lostCon() up to xSemaphoreTake
LostConEnter ==
    /\ pcEvt = "idle"
    /\ evLeft > 0
    /\ evKind = "DISCONNECTED"
    /\ isConnected' = FALSE
    /\ connStatusChanged' = TRUE
    /\ evLeft' = evLeft - 1
    /\ pcEvt' = "take"
    /\ UNCHANGED <<credVars, hasCredentials, usePrimAP, apNum, apScanTime,
                   deviceConnected, sendVal, prefs, wifiVars, sem, bleVars,
                   mainVars, evKind, connectedSSID, notifyVars, bleTaskVars,
                   envVars, readVars>>

\* xSemaphoreTake(connStatSemaphore, portMAX_DELAY) in gotIP and lostCon
EvtTake ==
    /\ pcEvt = "take"
    /\ sem = "free"
    /\ sem' = "evt"
    /\ pcEvt' = "set"
    /\ UNCHANGED <<credVars, fieldVars, prefs, wifiVars, bleVars, mainVars,
                   evKind, evLeft, connectedSSID, notifyVars, bleTaskVars,
                   envVars, readVars>>

\* gotIP(): the assignment of sendVal and xSemaphoreGive; the handler
\* returns and its local connectedSSID is gone
GotIPSet ==
    /\ pcEvt = "set"
    /\ evKind = "GOT_IP"
    /\ sendVal' = GotIPStatus(connectedSSID, ssidPrim, ssidSec, sendVal)
    /\ sem' = "free"
    /\ connectedSSID' = ""
    /\ evKind' = IF evLeft = 0 THEN "none" ELSE evKind
    /\ pcEvt' = "idle"
    /\ UNCHANGED <<credVars, hasCredentials, usePrimAP, apNum, apScanTime,
                   isConnected, connStatusChanged, deviceConnected, prefs,
                   wifiVars, bleVars, mainVars, evLeft, notifyVars,
                   bleTaskVars, envVars, readVars>>

\* lostCon(): sendVal = 0x0000 and xSemaphoreGive
LostConSet ==
    /\ pcEvt = "set"
    /\ evKind = "DISCONNECTED"
    /\ sendVal' = 0
    /\ sem' = "free"
    /\ evKind' = IF evLeft = 0 THEN "none" ELSE evKind
    /\ pcEvt' = "idle"
    /\ UNCHANGED <<credVars, hasCredentials, usePrimAP, apNum, apScanTime,
                   isConnected, connStatusChanged, deviceConnected, prefs,
                   wifiVars, bleVars, mainVars, evLeft, connectedSSID,
                   notifyVars, bleTaskVars, envVars, readVars>>

(***************************************************************************)
(* The network stack's side of the station.                                *)
(***************************************************************************)
\* an attempt ends with an address: SYSTEM_EVENT_STA_GOT_IP
StaGotIP ==
    /\ Len(evQueue) < MaxEvents
    /\ \E i \in 1..Len(sta) :
          /\ sta[i].st = "connecting"
          /\ sta' = [sta EXCEPT ![i].st = "connected"]
    /\ evQueue' = Append(evQueue, "GOT_IP")
    /\ UNCHANGED <<credVars, fieldVars, prefs, wifiAps, nHandlers, sem,
                   bleVars, mainVars, evtVars, notifyVars, bleTaskVars,
                   envVars, readVars>>

\* an attempt fails or an association is lost: SYSTEM_EVENT_STA_DISCONNECTED
StaLost ==
    /\ Len(evQueue) < MaxEvents
    /\ \E i \in 1..Len(sta) :
          sta' = [j \in 1..(Len(sta) - 1) |-> IF j < i THEN sta[j] ELSE sta[j + 1]]
    /\ evQueue' = Append(evQueue, "DISCONNECTED")
    /\ UNCHANGED <<credVars, fieldVars, prefs, wifiAps, nHandlers, sem,
                   bleVars, mainVars, evtVars, notifyVars, bleTaskVars,
                   envVars, readVars>>

(***************************************************************************)
(* Notification task: sendBLEdata(), one firing per period.                *)
(***************************************************************************)
\* if (deviceConnected) and xSemaphoreTake(connStatSemaphore, 0), whose
\* result is not looked at
NotifyTake ==
    /\ pcNotify = "wait"
    /\ deviceConnected
    /\ sem' = IF sem = "free" THEN "notify" ELSE sem
    /\ pcNotify' = "set"
    /\ UNCHANGED <<credVars, fieldVars, prefs, wifiVars, bleVars, mainVars,
                   evtVars, notificationFlag, bleTaskVars, envVars, readVars>>

\* pCharacteristicStatus->setValue(sendVal)
NotifySet ==
    /\ pcNotify = "set"
    /\ statusChar' = sendVal
    /\ pcNotify' = "give"
    /\ UNCHANGED <<credVars, fieldVars, prefs, wifiVars, sem, notifyEnabled,
                   mainVars, evtVars, notificationFlag, bleTaskVars,
                   envVars, readVars>>

NotifyGiveMutAlways ==
    /\ pcNotify = "give"
    /\ sem' = "free"
    /\ pcNotify' = "push"
    /\ UNCHANGED <<credVars, fieldVars, prefs, wifiVars, bleVars, mainVars,
                   evtVars, notificationFlag, bleTaskVars, envVars, readVars>>

\* xSemaphoreGive(connStatSemaphore) and the test of descriptor 0x2902;
\* when it is not 1 the firing ends here, with notificationFlag = false
NotifyGive ==
    /\ pcNotify = "give"
    /\ sem' = "free"
    /\ IF notifyEnabled = 1
       THEN /\ pcNotify' = "push"
            /\ notificationFlag' = notificationFlag
       ELSE /\ pcNotify' = "wait"
            /\ notificationFlag' = FALSE
    /\ UNCHANGED <<credVars, fieldVars, prefs, wifiVars, bleVars, mainVars,
                   evtVars, bleTaskVars, envVars, readVars>>

\* pCharacteristicStatus->notify(), notificationFlag = true, then
\* vTaskDelayUntil
NotifyPush ==
    /\ pcNotify = "push"
    /\ notificationFlag' = TRUE
    /\ pcNotify' = "wait"
    /\ UNCHANGED <<credVars, fieldVars, prefs, wifiVars, sem, statusChar,
                   notifyEnabled, mainVars, evtVars, bleTaskVars, envVars, readVars>>

(***************************************************************************)
(* BLE callback task: MyServerCallbacks, the client's write of descriptor  *)
(* 0x2902 and MyCallbackHandler::onWrite.  The BLE stack runs one callback *)
(* at a time; the server exists once setup() has called initBLE().         *)
(***************************************************************************)
BleReady == pcMain # "setup" /\ pcBle = "idle"

\* MyServerCallbacks::onConnect
BleConnect ==
    /\ BleReady
    /\ ~deviceConnected
    /\ deviceConnected' = TRUE
    /\ UNCHANGED <<credVars, hasCredentials, usePrimAP, apNum, apScanTime,
                   isConnected, connStatusChanged, sendVal, prefs, wifiVars,
                   sem, bleVars, mainVars, evtVars, notifyVars, bleTaskVars,
                   envVars, readVars>>

\* MyServerCallbacks::onDisconnect
BleDisconnect ==
    /\ BleReady
    /\ deviceConnected
    /\ deviceConnected' = FALSE
    /\ UNCHANGED <<credVars, hasCredentials, usePrimAP, apNum, apScanTime,
                   isConnected, connStatusChanged, sendVal, prefs, wifiVars,
                   sem, bleVars, mainVars, evtVars, notifyVars, bleTaskVars,
                   envVars, readVars>>

\* the client writes descriptor 0x2902 of the status characteristic
BleSubscribe ==
    /\ BleReady
    /\ deviceConnected
    /\ notifyEnabled' = 1 - notifyEnabled
    /\ UNCHANGED <<credVars, fieldVars, prefs, wifiVars, sem, statusChar,
                   mainVars, evtVars, notifyVars, bleTaskVars,
                   envVars, readVars>>

\* the if-chain of onWrite on the value written: which branch runs
HasAllCredKeys(obj) ==
    /\ "ssidPrim" \in DOMAIN obj
    /\ "pwPrim" \in DOMAIN obj
    /\ "ssidSec" \in DOMAIN obj
    /\ "pwSec" \in DOMAIN obj

onWriteBranchMutErase(value) ==
    IF Len(value) = 0 THEN "empty"
    ELSE LET jsonIn == DecodedPayload[value]
         IN  IF jsonIn.ok
             THEN IF HasAllCredKeys(jsonIn.obj) THEN "cred"
                  ELSE IF "reset" \in DOMAIN jsonIn.obj THEN "reset"
                  ELSE "erase"
             ELSE "invalid"

onWriteBranch(value) ==
    IF Len(value) = 0 THEN "empty"
    ELSE LET jsonIn == DecodedPayload[value]
         IN  IF jsonIn.ok
             THEN IF HasAllCredKeys(jsonIn.obj) THEN "cred"
                  ELSE IF "erase" \in DOMAIN jsonIn.obj THEN "erase"
                  ELSE IF "reset" \in DOMAIN jsonIn.obj THEN "reset"
                  ELSE "none"
             ELSE "invalid"

\* the four values onWrite takes from a credential-set message
onWriteCreds(value) ==
    LET obj == DecodedPayload[value].obj
    IN  <<obj["ssidPrim"], obj["pwPrim"], obj["ssidSec"], obj["pwSec"]>>

\* a value arrives at the configuration characteristic
WriteArrives(value) ==
    /\ BleReady
    /\ deviceConnected
    /\ nWrites < MaxWrites
    /\ nWrites' = nWrites + 1
    /\ wifiChar' = value

\* onWrite, credential set: the four fields, the Preferences block and
\* connStatusChanged = true
OnWriteCred(payloads) ==
    /\ \E value \in payloads :
          /\ onWriteBranch(value) = "cred"
          /\ WriteArrives(value)
          /\ LET c == onWriteCreds(value)
             IN  /\ ssidPrim' = c[1] /\ pwPrim' = c[2]
                 /\ ssidSec' = c[3] /\ pwSec' = c[4]
                 /\ prefs' = Stored(c)
    /\ connStatusChanged' = TRUE
    /\ pcBle' = "cred"
    /\ UNCHANGED <<hasCredentials, usePrimAP, apNum, apScanTime, isConnected,
                   deviceConnected, sendVal, wifiVars, sem, bleVars, mainVars,
                   evtVars, notifyVars, now, nRestarts, readVars>>

\* onWrite, credential set: hasCredentials = true, and return
OnWriteCredEnd ==
    /\ pcBle = "cred"
    /\ hasCredentials' = TRUE
    /\ pcBle' = "idle"
    /\ UNCHANGED <<credVars, usePrimAP, apNum, apScanTime, isConnected,
                   connStatusChanged, deviceConnected, sendVal, prefs,
                   wifiVars, sem, bleVars, mainVars, evtVars, notifyVars,
                   envVars, readVars>>

\* onWrite, erase: preferences.clear() and connStatusChanged = true
OnWriteErase(payloads) ==
    /\ \E value \in payloads :
          /\ onWriteBranch(value) = "erase"
          /\ WriteArrives(value)
    /\ prefs' = NoPrefs
    /\ connStatusChanged' = TRUE
    /\ pcBle' = "erase"
    /\ UNCHANGED <<credVars, hasCredentials, usePrimAP, apNum, apScanTime,
                   isConnected, deviceConnected, sendVal, wifiVars, sem,
                   bleVars, mainVars, evtVars, notifyVars, now, nRestarts, readVars>>

OnWriteEraseEndMutKeep ==
    /\ pcBle = "erase"
    /\ hasCredentials' = FALSE
    /\ ssidPrim' = "" /\ pwPrim' = "" /\ ssidSec' = ""
    /\ prefs' = NoPrefs
    /\ pcBle' = "idle"
    /\ UNCHANGED <<pwSec, usePrimAP, apNum, apScanTime, isConnected,
                   connStatusChanged, deviceConnected, sendVal, wifiVars,
                   sem, bleVars, mainVars, evtVars, notifyVars, envVars, readVars>>

\* onWrite, erase: hasCredentials = false, the four fields emptied,
\* nvs_flash_erase(), and return
OnWriteEraseEnd ==
    /\ pcBle = "erase"
    /\ hasCredentials' = FALSE
    /\ ssidPrim' = "" /\ pwPrim' = "" /\ ssidSec' = "" /\ pwSec' = ""
    /\ prefs' = NoPrefs
    /\ pcBle' = "idle"
    /\ UNCHANGED <<usePrimAP, apNum, apScanTime, isConnected,
                   connStatusChanged, deviceConnected, sendVal, wifiVars,
                   sem, bleVars, mainVars, evtVars, notifyVars, envVars, readVars>>

\* onWrite, reset: WiFi.disconnect() and esp_restart()
OnWriteReset(payloads) ==
    /\ \E value \in payloads :
          /\ onWriteBranch(value) = "reset"
          /\ BleReady
          /\ deviceConnected
    /\ Restart

\* MyCallbackHandler::onRead: the four fields as JSON text, obfuscated, set
\* as the value of the characteristic and returned to the client
OnReadConfig ==
    /\ BleReady
    /\ deviceConnected
    /\ wifiRead' = XorEncode(JsonPrintTo(ssidPrim, pwPrim, ssidSec, pwSec), apName)
    /\ UNCHANGED <<credVars, fieldVars, prefs, wifiVars, sem, bleVars,
                   mainVars, evtVars, notifyVars, bleTaskVars, envVars,
                   listChar, counter, codec>>

(***************************************************************************)
(* BLE task: ListCallbackHandler::onRead.                                  *)
(***************************************************************************)
\* the literals of the handler: entries listed at most, passes of the wait
\* loop at most, age of a scan in ms above which it is repeated, delay(500)
ListMax == 10
ListTries == 20
ListMaxAge == 10000
ListDelay == 500

\* WiFi.SSID(i) and WiFi.encryptionType(i), i counted from 0; an index with
\* no entry gives "" and WIFI_AUTH_OPEN
WiFiSSIDAt(aps, i) == IF i + 1 \in DOMAIN aps THEN aps[i + 1].ssid ELSE ""

WiFiEncryptionType(aps, i) == IF i + 1 \in DOMAIN aps THEN aps[i + 1].enc ELSE 0

ListLoopMutOpen(aps, n, i, acc) ==
    [k \in 1..(IF n < Len(aps) THEN n ELSE Len(aps)) |-> aps[k].ssid]

\* for (int i = 0; i < apNum && i < 10; i++) if (WiFi.encryptionType(i) != 0)
\* SSID.add(ssid)
RECURSIVE ListLoop(_, _, _, _)
ListLoop(aps, n, i, acc) ==
    IF i < n /\ i < ListMax
    THEN ListLoop(aps, n, i + 1,
                  IF WiFiEncryptionType(aps, i) # 0
                  THEN Append(acc, WiFiSSIDAt(aps, i))
                  ELSE acc)
    ELSE acc

\* jsonOut.printTo: {"SSID":[...]}
ListJson(ssids) == <<"SSID", ssids>>

\* the condition of the wait loop: while (!apNum && counter < 20)
ListWaiting == apNum = 0 /\ counter < ListTries

\* millis() - apScanTime > 10000
ScanIsOld == now - apScanTime > ListMaxAge

\* a read of the list characteristic arrives, at one of times:
\* byte counter = 0
OnReadListBegin(times) ==
    /\ BleReady
    /\ deviceConnected
    /\ now \in times
    /\ counter' = 0
    /\ pcBle' = "list"
    /\ UNCHANGED <<credVars, fieldVars, prefs, wifiVars, sem, bleVars,
                   mainVars, evtVars, notifyVars, envVars, wifiRead,
                   listChar, codec>>

\* a pass of the wait loop without a scan: counter++ and delay(500)
ListWait ==
    /\ pcBle = "list"
    /\ ListWaiting
    /\ ~ScanIsOld
    /\ counter' = counter + 1
    /\ now' = now + ListDelay
    /\ UNCHANGED <<credVars, fieldVars, prefs, wifiVars, sem, bleVars,
                   mainVars, evtVars, notifyVars, bleTaskVars, wifiChar,
                   nWrites, nRestarts, wifiRead, listChar, codec>>

\* a pass of the wait loop with a scan: publicWifiScan() up to
\* WiFi.scanNetworks
ListScanStart ==
    /\ pcBle = "list"
    /\ ListWaiting
    /\ ScanIsOld
    /\ DisconnectRoom
    /\ sta' = WiFiDisconnect(sta)
    /\ evQueue' = DisconnectEvents(evQueue, sta)
    /\ apScanTime' = now
    /\ pcBle' = "listScan"
    /\ UNCHANGED <<credVars, hasCredentials, usePrimAP, apNum, isConnected,
                   connStatusChanged, deviceConnected, sendVal, prefs,
                   wifiAps, nHandlers, sem, bleVars, mainVars, evtVars,
                   notifyVars, envVars, readVars>>

\* WiFi.scanNetworks returns one of results after one of durations;
\* apNum = actualWiFiScan(), counter++ and delay(500)
ListScanEnd(results, durations) ==
    /\ pcBle = "listScan"
    /\ \E r \in results :
          /\ wifiAps' = r.aps
          /\ apNum' = ActualWiFiScanReturn(r)
    /\ \E d \in durations : now' = now + d + ListDelay
    /\ counter' = counter + 1
    /\ pcBle' = "list"
    /\ UNCHANGED <<credVars, hasCredentials, usePrimAP, apScanTime,
                   isConnected, connStatusChanged, deviceConnected, sendVal,
                   prefs, sta, evQueue, nHandlers, sem, bleVars, mainVars,
                   evtVars, notifyVars, wifiChar, nWrites, nRestarts,
                   wifiRead, listChar, codec>>

\* the wait loop is left: the SSID array is built, printed and set as the
\* value of the list characteristic; the local counter ends with the call
OnReadListEnd ==
    /\ pcBle = "list"
    /\ ~ListWaiting
    /\ listChar' = ListJson(ListLoop(wifiAps, apNum, 0, <<>>))
    /\ counter' = 0
    /\ pcBle' = "idle"
    /\ UNCHANGED <<credVars, fieldVars, prefs, wifiVars, sem, bleVars,
                   mainVars, evtVars, notifyVars, envVars, wifiRead, codec>>

\* onWrite on a value that is empty, is not JSON, or has none of the three
\* shapes: nothing but the log
OnWriteIgnored(payloads) ==
    /\ \E value \in payloads :
          /\ onWriteBranch(value) \in {"empty", "invalid", "none"}
          /\ WriteArrives(value)
    /\ UNCHANGED <<credVars, fieldVars, prefs, wifiVars, sem, bleVars,
                   mainVars, evtVars, notifyVars, bleTaskVars, now, nRestarts, readVars>>


(***************************************************************************)
(* Specifications.                                                         *)
(***************************************************************************)
\* the scans of the concurrent specification: no network, or one of "A", "B"
ConcScans == ScanFound(MaxScanConc, {"A", "B"}, {-50}, {3})

\* the device as a whole: the four tasks, the network stack and the client
Next ==
    \/ SetupLoad
    \/ ScanStart
    \/ ScanEnd(ConcScans)
    \/ ConnectWiFiTeardown(MaxHandlers)
    \/ ConnectWiFiBegin
    \/ LoopCheck
    \/ LoopTake
    \/ LoopGive
    \/ LoopClear
    \/ EvtPop
    \/ GotIPEnter
    \/ LostConEnter
    \/ EvtTake
    \/ GotIPSet
    \/ LostConSet
    \/ StaGotIP
    \/ StaLost
    \/ NotifyTake
    \/ NotifySet
    \/ NotifyGive
    \/ NotifyPush
    \/ BleConnect
    \/ BleDisconnect
    \/ BleSubscribe
    \/ OnWriteCred(ConcWrites)
    \/ OnWriteCredEnd
    \/ OnWriteErase(ConcWrites)
    \/ OnWriteEraseEnd
    \/ OnWriteReset(ConcWrites)
    \/ OnWriteIgnored(ConcWrites)

\* at power-on the flash is empty, or holds the set of an earlier
\* provisioning
Init == InitWith({NoPrefs, Stored(<<"A", "p", "B", "q">>)})

Spec == Init /\ [][Next]_vars

\* the steps of the main task, of the event task and of a write handler
\* that has begun
MainStep ==
    \/ SetupLoad
    \/ ScanStart
    \/ ScanEnd(ConcScans)
    \/ ConnectWiFiTeardown(MaxRegistrations)
    \/ ConnectWiFiBegin
    \/ LoopCheck
    \/ LoopTake
    \/ LoopGive
    \/ LoopClear

EvtStep ==
    \/ EvtPop
    \/ GotIPEnter
    \/ LostConEnter
    \/ EvtTake
    \/ GotIPSet
    \/ LostConSet

WriteStep ==
    \/ OnWriteCredEnd
    \/ OnWriteEraseEnd

\* the main task, the event task, the network stack and the configuration
\* writes of a connected client; the notification task is left out, so the
\* lock is contended by the main loop and the event handlers only
NextFair ==
    \/ MainStep
    \/ EvtStep
    \/ WriteStep
    \/ StaGotIP
    \/ StaLost
    \/ BleConnect
    \/ OnWriteCred(ConcWrites)
    \/ OnWriteErase(ConcWrites)

\* every task that can take a step is scheduled in the end: the main loop
\* polls, the event task and the BLE task block on their queues and on the
\* semaphore only.  Nothing is assumed of the network or of the client.
SpecFair ==
    /\ Init
    /\ [][NextFair]_vars
    /\ WF_vars(MainStep)
    /\ WF_vars(EvtStep)
    /\ WF_vars(WriteStep)

\* the connection controller: the same units with every kind of
\* configuration write, the reset included, and no assumption of progress
NextCtl ==
    \/ MainStep
    \/ EvtStep
    \/ WriteStep
    \/ StaGotIP
    \/ StaLost
    \/ BleConnect
    \/ OnWriteCred(ConcWrites)
    \/ OnWriteErase(ConcWrites)
    \/ OnWriteReset(ConcWrites)
    \/ OnWriteIgnored(ConcWrites)

SpecCtl == Init /\ [][NextCtl]_vars

\* millis() moves on by step while no handler is at work, up to latest
TimePasses(step, latest) ==
    /\ pcBle = "idle"
    /\ now + step <= latest
    /\ now' = now + step
    /\ UNCHANGED <<credVars, fieldVars, prefs, wifiVars, sem, bleVars,
                   mainVars, evtVars, notifyVars, bleTaskVars, wifiChar,
                   nWrites, nRestarts, readVars>>

\* the units that scan or hold the lock, side by side: the main task, the
\* event task and the list read handler of a connected client, with the
\* network stack; the main task runs when the device has just started and
\* again more than 10 s later, when the list is read
NextUnits ==
    \/ MainStep
    \/ EvtStep
    \/ StaGotIP
    \/ StaLost
    \/ BleConnect
    \/ TimePasses(ListMaxAge + ListDelay, MaxNowUnits)
    \/ OnReadListBegin({MaxNowUnits})
    \/ ListWait
    \/ ListScanStart
    \/ ListScanEnd(ConcScans, {0})
    \/ OnReadListEnd

SpecUnits == Init /\ [][NextUnits]_vars

\* the configuration handlers and the start-up load on their own, over every
\* credential set of the value domain
NextCred ==
    \/ SetupLoad
    \/ BleConnect
    \/ OnWriteCred(AllWrites)
    \/ OnWriteCredEnd
    \/ OnWriteErase(AllWrites)
    \/ OnWriteEraseEnd
    \/ OnWriteReset(AllWrites)
    \/ OnWriteIgnored(AllWrites)
    \/ OnReadConfig

InitCred == InitWith({NoPrefs} \cup {Stored(c) : c \in AllCreds})

SpecCred == InitCred /\ [][NextCred]_vars

\* scanWiFi on its own: the main task is inside WiFi.scanNetworks with any
\* two configured SSIDs and any earlier selection, and the scan returns any
\* result of the value domain
AllScans == ScanResults(MaxScan, ScanSsids, Rssis, {3})

InitScan ==
    /\ ssidPrim \in CredSsids /\ pwPrim = "p"
    /\ ssidSec \in CredSsids /\ pwSec = "p"
    /\ hasCredentials = TRUE
    /\ usePrimAP \in BOOLEAN
    /\ apNum = RamInit.apNum
    /\ apScanTime = 0
    /\ isConnected = FALSE
    /\ connStatusChanged = TRUE
    /\ deviceConnected = TRUE
    /\ sendVal = 0
    /\ prefs = Stored(<<ssidPrim, pwPrim, ssidSec, pwSec>>)
    /\ wifiAps = <<>> /\ sta = <<>> /\ evQueue = <<>> /\ nHandlers = 0
    /\ sem = "free"
    /\ statusChar = 0 /\ notifyEnabled = 0
    /\ pcMain = "scanning" /\ scanFound = FALSE /\ mainRet = "clear"
    /\ pcEvt = "idle" /\ evKind = "none" /\ evLeft = 0 /\ connectedSSID = ""
    /\ pcNotify = "wait" /\ notificationFlag = FALSE
    /\ pcBle = "idle"
    /\ now = 0
    /\ wifiChar = <<>>
    /\ nWrites = 0 /\ nRestarts = 0
    /\ wifiRead = <<>> /\ listChar = <<>> /\ counter = 0
    /\ codec = NoCodec

NextScan == ScanEnd(AllScans)

SpecScan == InitScan /\ [][NextScan]_vars

\* the list read handler on its own.  The scans it sees: every result of up
\* to two entries, and results of nine entries and more that repeat such a
\* result; a scan takes no time or 2.5 s
ListEntries == ScanEntries({"A", "B"}, {-50}, {0, 3})

ListSeeds == UNION {[1..k -> ListEntries] : k \in 1..2}

LongScan(seed, n) == [i \in 1..n |-> seed[((i - 1) % Len(seed)) + 1]]

ListScans ==
    {[n |-> Len(l), aps |-> l] :
        l \in {<<>>} \cup ListSeeds
              \cup {LongScan(sd, n) : sd \in ListSeeds, n \in 9..MaxListScan}}
    \cup ScanFailed

ScanDurations == {0, 2500}

\* the device idle, a client connected, any earlier scan done at 0 or at
\* 10 s, and a read arriving any time later
InitList ==
    /\ ssidPrim = "" /\ pwPrim = "" /\ ssidSec = "" /\ pwSec = ""
    /\ hasCredentials = FALSE
    /\ usePrimAP = TRUE
    /\ \E r \in ListScans :
          /\ apNum = ActualWiFiScanReturn(r)
          /\ wifiAps = r.aps
    /\ apScanTime \in {0, 10000}
    /\ now \in {apScanTime + d : d \in {0, 9500, 10000, 10001, 10500, 20000}}
    /\ isConnected = FALSE
    /\ connStatusChanged = FALSE
    /\ deviceConnected = TRUE
    /\ sendVal = 0
    /\ prefs = NoPrefs
    /\ sta = <<>> /\ evQueue = <<>> /\ nHandlers = 0
    /\ sem = "free"
    /\ statusChar = 0 /\ notifyEnabled = 0
    /\ pcMain = "loop" /\ scanFound = FALSE /\ mainRet = "loop"
    /\ pcEvt = "idle" /\ evKind = "none" /\ evLeft = 0 /\ connectedSSID = ""
    /\ pcNotify = "wait" /\ notificationFlag = FALSE
    /\ pcBle = "idle"
    /\ wifiChar = <<>>
    /\ nWrites = 0 /\ nRestarts = 0
    /\ wifiRead = <<>> /\ listChar = <<>> /\ counter = 0
    /\ codec = NoCodec

NextList ==
    \/ OnReadListBegin(0..MaxNow)
    \/ ListWait
    \/ ListScanStart
    \/ ListScanEnd(ListScans, ScanDurations)
    \/ OnReadListEnd

SpecList == InitList /\ [][NextList]_vars

\* the two obfuscation loops on their own: the encode loop of onRead on any
\* text under any key, then the decode loop of onWrite on what it produced
XorBytes == {0, 1, 69, 255}

XorTexts == UNION {[1..k -> XorBytes] : k \in 0..MaxXorLen}

XorKeys == { <<69>>, <<69, 83>>, apName }

InitXor ==
    /\ InitState({NoPrefs})
    /\ codec \in {[pc |-> "plain", key |-> k, src |-> x, buf |-> x] :
                      k \in XorKeys, x \in XorTexts}

CodecEncode ==
    /\ codec.pc = "plain"
    /\ codec' = [codec EXCEPT !.buf = XorEncode(codec.buf, codec.key),
                              !.pc = "coded"]
    /\ UNCHANGED <<credVars, fieldVars, prefs, wifiVars, sem, bleVars,
                   mainVars, evtVars, notifyVars, bleTaskVars, envVars,
                   wifiRead, listChar, counter>>

CodecDecode ==
    /\ codec.pc = "coded"
    /\ codec' = [codec EXCEPT !.buf = XorKey(codec.buf, codec.key),
                              !.pc = "decoded"]
    /\ UNCHANGED <<credVars, fieldVars, prefs, wifiVars, sem, bleVars,
                   mainVars, evtVars, notifyVars, bleTaskVars, envVars,
                   wifiRead, listChar, counter>>

NextXor == CodecEncode \/ CodecDecode

SpecXor == InitXor /\ [][NextXor]_vars


(***************************************************************************)
(* Properties of scanWiFi, checked under SpecScan.                         *)
(***************************************************************************)
\* scanWiFi has returned: the main task has left WiFi.scanNetworks
ScanReturned == pcMain # "scanning"

\* the configured SSID occurs in the entries of the last scan
Occurs(ssid) == \E i \in 1..Len(wifiAps) : wifiAps[i].ssid = ssid

\* the signal strength of the last entry of the scan that carries ssid
LastRssi(ssid) ==
    LET i == CHOOSE k \in 1..Len(wifiAps) :
                 /\ wifiAps[k].ssid = ssid
                 /\ \A j \in (k + 1)..Len(wifiAps) : wifiAps[j].ssid # ssid
    IN  wifiAps[i].rssi

BothFound == Occurs(ssidPrim) /\ Occurs(ssidSec)

\* C1, as the code has it: when both the primary and the secondary SSID are
\* found with equal signal strength, scanWiFi returns true with usePrimAP
\* false: the strict > of the comparison resolves a tie to the secondary.
C1_TieSelectsSecondary ==
    (ScanReturned /\ BothFound /\ LastRssi(ssidPrim) = LastRssi(ssidSec))
        => (scanFound /\ ~usePrimAP)

\* C1, as stated: when both SSIDs are found with equal signal strength the
\* selection is found = true with usePrimAP = true.
C1_TieSelectsPrimary ==
    (ScanReturned /\ BothFound /\ LastRssi(ssidPrim) = LastRssi(ssidSec))
        => (scanFound /\ usePrimAP)

\* two different networks seen at -50 dBm each, the secondary selected
C1_Witness ==
    /\ pcMain = "connect"
    /\ ssidPrim = "A" /\ ssidSec = "B"
    /\ wifiAps = << [ssid |-> "A", rssi |-> -50, enc |-> 3],
                    [ssid |-> "B", rssi |-> -50, enc |-> 3] >>
    /\ scanFound /\ ~usePrimAP

\* C2: when both SSIDs are found with different signal strengths, scanWiFi
\* returns true and usePrimAP is true exactly when the primary's strength is
\* greater than the secondary's.
C2_StrongerSelected ==
    (ScanReturned /\ BothFound /\ LastRssi(ssidPrim) # LastRssi(ssidSec))
        => (scanFound /\ (usePrimAP <=> LastRssi(ssidPrim) > LastRssi(ssidSec)))

\* the secondary is the stronger one and is selected although usePrimAP
\* need not have been false before
C2_Witness ==
    /\ pcMain = "connect"
    /\ ssidPrim = "A" /\ ssidSec = "B"
    /\ wifiAps = << [ssid |-> "A", rssi |-> -50, enc |-> 3],
                    [ssid |-> "C", rssi |-> -40, enc |-> 3],
                    [ssid |-> "B", rssi |-> -40, enc |-> 3] >>
    /\ scanFound /\ ~usePrimAP

\* C3, as stated: when exactly one of the two configured SSIDs occurs, in one
\* or in several entries, scanWiFi returns true and usePrimAP says which one
\* occurred.
C3_OnlyOneFound ==
    (ScanReturned /\ Occurs(ssidPrim) # Occurs(ssidSec))
        => (scanFound /\ (usePrimAP <=> Occurs(ssidPrim)))

\* C4: a scan with no entry equal to the primary or the secondary SSID, a
\* scan of zero networks and a failed scan included, makes scanWiFi return
\* false and leaves usePrimAP as it was.
C4_NoMatchKeepsSelection ==
    [][(pcMain = "scanning" /\ pcMain' # "scanning"
            /\ ~(\E i \in 1..Len(wifiAps') :
                     wifiAps'[i].ssid \in {ssidPrim, ssidSec}))
        => (~scanFound' /\ usePrimAP' = usePrimAP /\ pcMain' = mainRet)]_vars

\* a failed scan (WIFI_SCAN_FAILED) left the secondary selected
C4_Witness ==
    /\ pcMain = "clear"
    /\ apNum = -2
    /\ wifiAps = <<>>
    /\ ~scanFound /\ ~usePrimAP


(***************************************************************************)
(* Properties of the configuration handlers, checked under SpecCred.       *)
(***************************************************************************)
\* the JSON object a payload decodes to, worked out from the bytes (once
\* for each payload of the value domain)
DecodedKnown ==
    [value \in ConcWrites \cup AllWrites |-> JsonParse(XorKey(value, apName))]

Decoded(value) ==
    IF value \in DOMAIN DecodedKnown THEN DecodedKnown[value]
    ELSE JsonParse(XorKey(value, apName))

CredKeys == {"ssidPrim", "pwPrim", "ssidSec", "pwSec"}

\* the three shapes of a message
IsCredMessage(value) ==
    /\ value # <<>>
    /\ Decoded(value).ok
    /\ CredKeys \subseteq DOMAIN Decoded(value).obj

IsEraseMessage(value) ==
    /\ value # <<>>
    /\ Decoded(value).ok
    /\ ~(CredKeys \subseteq DOMAIN Decoded(value).obj)
    /\ "erase" \in DOMAIN Decoded(value).obj

IsResetMessage(value) ==
    /\ value # <<>>
    /\ Decoded(value).ok
    /\ ~(CredKeys \subseteq DOMAIN Decoded(value).obj)
    /\ "erase" \notin DOMAIN Decoded(value).obj
    /\ "reset" \in DOMAIN Decoded(value).obj

\* a payload of none of the three shapes
IsMalformed(value) ==
    ~IsCredMessage(value) /\ ~IsEraseMessage(value) /\ ~IsResetMessage(value)

\* the four fields as a tuple
Fields == <<ssidPrim, pwPrim, ssidSec, pwSec>>

\* C5: a write whose decoded payload does not parse as JSON, or parses but
\* has neither all four credential keys nor an erase key nor a reset key,
\* leaves the four credential fields, hasCredentials, the Preferences store
\* and connStatusChanged unchanged.
C5_MalformedWriteChangesNothing ==
    [][(nWrites' = nWrites + 1 /\ IsMalformed(wifiChar'))
        => (/\ Fields' = Fields
            /\ hasCredentials' = hasCredentials
            /\ prefs' = prefs
            /\ connStatusChanged' = connStatusChanged
            /\ pcBle' = "idle")]_vars

\* a message with three of the four keys has arrived at a device that holds
\* a loaded, valid set; the set is still there and no change is signalled
C5_Witness ==
    /\ nWrites = 1
    /\ wifiChar = XorKey(JsonText(<< <<"ssidPrim", "A">>, <<"pwPrim", "p">>,
                                     <<"ssidSec", "B">> >>), apName)
    /\ Fields = <<"B", "p", "A", "p">>
    /\ hasCredentials /\ prefs.valid /\ ~connStatusChanged

\* C6: once onWrite has handled an erase directive, whatever its flag and
\* whatever was held before, the four credential fields are empty,
\* hasCredentials is false and the Preferences store has no valid = true.
C6_EraseClearsEverything ==
    (pcBle = "idle" /\ wifiChar # <<>> /\ IsEraseMessage(wifiChar))
        => (/\ Fields = <<"", "", "", "">>
            /\ ~hasCredentials
            /\ ~prefs.valid
            /\ prefs.ssidPrim = "" /\ prefs.pwPrim = ""
            /\ prefs.ssidSec = "" /\ prefs.pwSec = "")

\* {"erase": false} has been handled on a device that had found a valid set
\* in the store at start-up
C6_Witness ==
    /\ pcBle = "idle"
    /\ wifiChar = XorKey(JsonText(<< <<"erase", "false">> >>), apName)
    /\ pcMain = "scan"
    /\ Fields = <<"", "", "", "">>
    /\ ~hasCredentials /\ ~prefs.valid

\* the four values of a credential-set message
MessageCreds(value) ==
    LET obj == Decoded(value).obj
    IN  <<obj["ssidPrim"], obj["pwPrim"], obj["ssidSec"], obj["pwSec"]>>

C8_AllOrNothing ==
    \/ \A i \in 1..4 : Fields[i] = ""
    \/ \A i \in 1..4 : Fields[i] # ""


(***************************************************************************)
(* Properties of the connection status and of the station, checked under   *)
(* Spec.                                                                   *)
(***************************************************************************)
\* C9, as stated: in every reachable state isConnected = false implies that
\* the status word sendVal is 0x0000.
C9_DisconnectedMeansNone == ~isConnected => sendVal = 0

\* C10: at most one connection attempt or association exists at any time;
\* when connectWiFi is about to call WiFi.begin the station holds none, and
\* only that call of the main task adds one.
C10_OneAttemptInFlight ==
    /\ [](Len(sta) <= 1 /\ (pcMain = "begin" => sta = <<>>))
    /\ [][Len(sta') > Len(sta)
            => (pcMain = "begin" /\ sta = <<>> /\ Len(sta') = 1)]_vars

\* connectWiFi is about to request an attempt for the set written over BLE
\* while the DISCONNECTED event of the link that was dropped is still waiting
C10_Witness ==
    /\ pcMain = "begin"
    /\ sta = <<>>
    /\ evQueue = <<"DISCONNECTED">>
    /\ nWrites = 1 /\ ssidPrim = "B" /\ prefs.ssidPrim = "B"


(***************************************************************************)
(* Properties of the obfuscation, checked under SpecXor.                   *)
(***************************************************************************)
\* the key byte that position i (from 1) of a text meets when the key index
\* starts at 0 and goes back to 0 at the key length
KeyByteAt(key, i) == key[((i - 1) % Len(key)) + 1]

\* C11: for every non-empty key and every byte sequence x, the decode loop
\* of the write handler applied to the output of the encode loop of the read
\* handler under the same key gives x again, and byte i of the encoded text
\* is x[i] XOR the key byte at (i - 1) modulo the key length.
C11_XorRoundTrip ==
    /\ codec.pc = "coded"
        => /\ Len(codec.buf) = Len(codec.src)
           /\ \A i \in 1..Len(codec.src) :
                 codec.buf[i] = XorByte(codec.src[i], KeyByteAt(codec.key, i))
    /\ codec.pc = "decoded" => codec.buf = codec.src

\* a text longer than its key, with a byte equal to the key byte (encoded as
\* 0), has gone through both loops
C11_Witness ==
    /\ codec.pc = "decoded"
    /\ codec.key = <<69, 83>>
    /\ codec.src = <<69, 255, 1>>
    /\ codec.buf = <<69, 255, 1>>


(***************************************************************************)
(* Properties of the read of the configuration characteristic, checked     *)
(* under SpecCred.                                                         *)
(***************************************************************************)
\* the step is a read of the configuration characteristic
ConfigReadStep == wifiRead' # wifiRead /\ wifiRead' # <<>>

C13_PushOnlyToSubscriber ==
    [][/\ (pcNotify = "wait" /\ pcNotify' # "wait") => deviceConnected
       /\ (pcNotify # "push" /\ pcNotify' = "push")
            => (pcNotify = "give" /\ notifyEnabled = 1 /\ notifyEnabled' = 1)
       /\ (pcNotify = "give" /\ notifyEnabled # 1 /\ pcNotify' # "give"
                /\ nRestarts' = nRestarts)
            => (/\ pcNotify' = "wait"
                /\ ~notificationFlag'
                /\ UNCHANGED <<credVars, fieldVars, prefs, wifiVars, bleVars,
                               mainVars, evtVars, bleTaskVars, envVars,
                               readVars>>)]_vars

\* a firing has copied the status word 0x0001 and skipped the push: the
\* client is connected and has not enabled notifications
C13_Witness ==
    /\ pcNotify = "wait"
    /\ deviceConnected /\ notifyEnabled = 0
    /\ statusChar = 1 /\ sendVal = 1
    /\ ~notificationFlag

\* C14, as stated: when the try-acquire of the notification task fails
\* because another unit holds connStatSemaphore, the firing goes no further:
\* it does not go on to read sendVal, to push or to release the lock.
C14_FailedTakeSkipsCycle ==
    [][~(pcNotify = "wait" /\ sem # "free" /\ pcNotify' = "set")]_vars

\* C15, as stated: a unit reads or writes sendVal only while it holds
\* connStatSemaphore, and no two units are at their access of sendVal at the
\* same time.
C15_StatusUnderLock ==
    /\ pcNotify = "set" => sem = "notify"
    /\ pcEvt = "set" => sem = "evt"
    /\ pcMain = "give" => sem = "main"
    /\ ~(pcNotify = "set" /\ pcEvt = "set")
    /\ ~(pcNotify = "set" /\ pcMain = "give")
    /\ ~(pcEvt = "set" /\ pcMain = "give")

\* C16, as stated: a reader never reads the status word while gotIP has set
\* isConnected = true and has not yet written the word that belongs to it.
C16_NoTornStatus ==
    /\ ~(pcMain = "give" /\ isConnected
            /\ pcEvt = "take" /\ evKind = "GOT_IP")
    /\ ~(pcNotify = "set" /\ isConnected
            /\ pcEvt = "take" /\ evKind = "GOT_IP")


(***************************************************************************)
(* Progress of the main loop, checked under SpecFair.                      *)
(***************************************************************************)
\* C17, as stated: once the write handler has taken a credential set, the
\* main task in the end enters a scan.
C17_WriteLeadsToScan ==
    (pcBle = "cred") ~> (pcMain = "scanning")

\* lostCon holds the lock and is at its write of sendVal
LostConAtSet ==
    /\ pcEvt = "set"
    /\ evKind = "DISCONNECTED"

\* C18, as stated: when lostCon returns, isConnected is false, sendVal is 0
\* and connStatusChanged is true, and with credentials present the main task
\* in the end enters a scan.
C18_LostLeadsToScan ==
    /\ [][(LostConAtSet /\ pcEvt' = "idle")
            => (~isConnected' /\ sendVal' = 0 /\ connStatusChanged')]_vars
    /\ (LostConAtSet /\ hasCredentials)
            ~> (pcMain = "scanning" \/ ~hasCredentials)

(***************************************************************************)
(* Properties of the list read handler, checked under SpecList.            *)
(***************************************************************************)
\* the step on which a read of the list characteristic returns
ListReadReturns == pcBle = "list" /\ pcBle' = "idle"

\* C19: the value a read of the list characteristic returns is the array
\* "SSID" of at most 10 strings, each the SSID of an entry of the most
\* recent scan whose encryption type is not open.
C19_ListIsBoundedAndClosed ==
    [][ListReadReturns =>
          /\ Len(listChar') = 2
          /\ listChar'[1] = "SSID"
          /\ Len(listChar'[2]) <= 10
          /\ \A k \in 1..Len(listChar'[2]) :
                \E i \in 1..Len(wifiAps) :
                   /\ wifiAps[i].ssid = listChar'[2][k]
                   /\ wifiAps[i].enc # 0]_vars

\* a read has returned ten SSIDs of a scan the handler made itself, which
\* found more than ten networks
C19_Witness ==
    /\ pcBle = "idle"
    /\ apScanTime \notin {0, 10000}
    /\ Len(wifiAps) > 10
    /\ Len(listChar) = 2
    /\ Len(listChar[2]) = 10

\* C20, as stated: a read that arrives when the last scan is older than
\* 10000 ms goes on to scan, whether that scan had found networks or not.
C20_OldScanIsRepeated ==
    [][(pcBle = "list" /\ counter = 0 /\ now - apScanTime > 10000
            /\ pcBle' # "list")
          => pcBle' = "listScan"]_vars


(***************************************************************************)
(* Reset and start-up, checked under SpecCtl.                              *)
(***************************************************************************)
\* the four fields as the Preferences namespace holds them
StoredFields == <<prefs.ssidPrim, prefs.pwPrim, prefs.ssidSec, prefs.pwSec>>

\* C21: a reset directive drops the station's attempts and associations and
\* restarts the device with the Preferences store as it was; when setup()
\* has then loaded the store, isConnected is false, sendVal is 0 and the four
\* fields are the stored ones.
C21_ResetKeepsStore ==
    /\ [][nRestarts' # nRestarts
            => (/\ prefs' = prefs
                /\ sta' = <<>>
                /\ pcMain' = "setup"
                /\ ~isConnected' /\ sendVal' = 0)]_vars
    /\ [][(pcMain = "setup" /\ pcMain' # "setup")
            => (/\ prefs' = prefs
                /\ Fields' = StoredFields
                /\ ~isConnected' /\ sendVal' = 0)]_vars

\* after a reset, setup() has loaded the set the client had written before
C21_Witness ==
    /\ nRestarts = 1 /\ nWrites = 1
    /\ pcMain # "setup"
    /\ prefs.valid
    /\ Fields = <<"B", "q", "C", "r">>
    /\ hasCredentials


(***************************************************************************)
(* The controller: event handlers, main loop, scan and connection request, *)
(* checked under SpecCtl.                                                  *)
(***************************************************************************)
\* the step on which gotIP returns
GotIPReturns ==
    /\ pcEvt = "set" /\ evKind = "GOT_IP"
    /\ pcEvt' = "idle"
    /\ nRestarts' = nRestarts

\* C22, as stated: when gotIP has run, sendVal is 1 if the SSID of the
\* association equals ssidPrim, 2 if it equals ssidSec and not ssidPrim, and
\* 0 if it equals neither, whatever sendVal was before.
C22_GotIPSetsStatus ==
    [][GotIPReturns =>
          sendVal' = IF connectedSSID = ssidPrim THEN 1
                     ELSE IF connectedSSID = ssidSec THEN 2
                     ELSE 0]_vars

\* C23: connStatusChanged goes from true to false only on the last step of a
\* pass of loop() (or with a restart of the device); a pass begins only with
\* the flag set, and it returns to the top of loop() only through that last
\* step, which leaves the flag false.
C23_SingleConsumer ==
    [][/\ (connStatusChanged /\ ~connStatusChanged' /\ nRestarts' = nRestarts)
            => (pcMain = "clear" /\ pcMain' = "loop")
       /\ (pcMain = "loop" /\ pcMain' # "loop" /\ nRestarts' = nRestarts)
            => connStatusChanged
       /\ (pcMain # "loop" /\ pcMain' = "loop" /\ mainRet = "clear")
            => (pcMain = "clear" /\ ~connStatusChanged')]_vars

\* the loop has finished its pass on an address-acquired transition
C23_Witness ==
    /\ pcMain = "loop"
    /\ ~connStatusChanged
    /\ isConnected /\ sendVal = 1
    /\ nRestarts = 0


\* the step on which WiFi.scanNetworks returns to scanWiFi in the main task
MainScanReturns ==
    /\ pcMain = "scanning" /\ pcMain' # "scanning"
    /\ nRestarts' = nRestarts

\* no entry of the scan result carries one of the two configured SSIDs
NoCandidate(aps) ==
    \A i \in 1..Len(aps) : aps[i].ssid # ssidPrim /\ aps[i].ssid # ssidSec

\* C24: a scan with no entry for either configured SSID is followed by no
\* connection request: the main task goes back to where scanWiFi was called
\* from, setup() or the end of the pass of loop().  A scan is started only by
\* setup() or by a pass that found connStatusChanged set, and the flag is set
\* only by gotIP, lostCon and the write handler.
C24_NoRetryAfterEmptyScan ==
    [][/\ (MainScanReturns /\ NoCandidate(wifiAps'))
            => (pcMain' = mainRet /\ sta' = sta /\ pcMain' # "connect")
       /\ (pcMain # "scan" /\ pcMain' = "scan")
            => (pcMain = "setup" \/ (pcMain = "loop" /\ connStatusChanged))
       /\ (Len(sta') > Len(sta)) => pcMain = "begin"
       /\ (~connStatusChanged /\ connStatusChanged')
            => (\/ pcEvt = "idle" /\ pcEvt' = "take"
                \/ nWrites' = nWrites + 1)]_vars

\* a pass triggered by a credential write has scanned, found only a network
\* that is not configured, and is back at the top of loop() with the flag
\* cleared and no attempt made
C24_Witness ==
    /\ pcMain = "loop"
    /\ ~connStatusChanged
    /\ hasCredentials /\ nWrites = 1
    /\ wifiAps # <<>> /\ NoCandidate(wifiAps)
    /\ sta = <<>> /\ ~isConnected


\* the pair of the candidate usePrimAP names
SelectedPair ==
    IF usePrimAP THEN <<ssidPrim, pwPrim>> ELSE <<ssidSec, pwSec>>

\* C25: the main task reaches connectWiFi only on the return of a scan that
\* found an entry for a configured SSID and returned true; usePrimAP changes
\* only in such a return, and the attempt that connectWiFi then adds to the
\* station carries the SSID and the password of the pair usePrimAP names.
C25_AttemptFollowsScan ==
    [][/\ (pcMain # "connect" /\ pcMain' = "connect")
            => (MainScanReturns /\ scanFound' /\ ~NoCandidate(wifiAps'))
       /\ (pcMain # "begin" /\ pcMain' = "begin") => pcMain = "connect"
       /\ (usePrimAP' # usePrimAP /\ nRestarts' = nRestarts)
            => MainScanReturns
       /\ (Len(sta') > Len(sta))
            => (/\ pcMain = "begin"
                /\ Len(sta') = Len(sta) + 1
                /\ sta'[Len(sta')].st = "connecting"
                /\ <<sta'[Len(sta')].ssid, sta'[Len(sta')].pw>>
                      = SelectedPair)]_vars

\* an attempt on the secondary pair is under way after a scan selected it
C25_Witness ==
    /\ sta # <<>>
    /\ ~usePrimAP
    /\ sta[Len(sta)] = [st |-> "connecting", ssid |-> ssidSec, pw |-> pwSec]
    /\ ssidSec = "B"
    /\ \E i \in 1..Len(wifiAps) : wifiAps[i].ssid = "B"
    /\ pcMain \in {"loop", "clear"}


(***************************************************************************)
(* Who scans, checked under SpecUnits.                                     *)
(***************************************************************************)
\* C26: a scan is started by the main task, from setup() or from a pass of
\* loop(), or by the list read handler, and by neither while it holds
\* connStatSemaphore; the step is never one of the event task, and nothing
\* else replaces the scan results or the scan time.
C26_ScanOutsideLock ==
    [][/\ (pcMain # "scanning" /\ pcMain' = "scanning")
            => (pcMain = "scan" /\ sem # "main" /\ mainRet \in {"loop", "clear"}
                /\ UNCHANGED evtVars)
       /\ (pcBle # "listScan" /\ pcBle' = "listScan")
            => (pcBle = "list" /\ sem # "ble" /\ UNCHANGED evtVars)
       /\ (wifiAps' # wifiAps /\ nRestarts' = nRestarts)
            => (pcMain = "scanning" \/ pcBle = "listScan")
       /\ (apScanTime' # apScanTime /\ nRestarts' = nRestarts)
            => (pcMain \in {"setup", "scan"} \/ pcBle = "list")]_vars

\* the main task and the list read handler are both inside a scan while
\* gotIP or lostCon holds the lock
C26_Witness ==
    /\ pcMain = "scanning"
    /\ pcBle = "listScan"
    /\ sem = "evt"


(***************************************************************************)
(* Repeated entries in a scan, checked under SpecScan.                     *)
(***************************************************************************)
\* the signal strength of the first entry of the scan that carries ssid
FirstRssi(ssid) ==
    LET i == CHOOSE k \in 1..Len(wifiAps) :
                 /\ wifiAps[k].ssid = ssid
                 /\ \A j \in 1..(k - 1) : wifiAps[j].ssid # ssid
    IN  wifiAps[i].rssi

\* C27, as stated: when both configured SSIDs are found, the comparison of
\* scanWiFi is made on the signal strength of the first entry of each, so
\* that the primary is selected exactly when its first entry is stronger
\* than the first entry of the secondary.
C27_FirstOccurrenceCounts ==
    (ScanReturned /\ BothFound /\ ssidPrim # ssidSec)
        => (usePrimAP <=> FirstRssi(ssidPrim) > FirstRssi(ssidSec))


(***************************************************************************)
(* The start-up load, checked under SpecCred.                              *)
(***************************************************************************)
\* the store holds valid = true and four non-empty strings
StoreComplete ==
    /\ prefs.valid
    /\ prefs.ssidPrim # "" /\ prefs.pwPrim # ""
    /\ prefs.ssidSec # "" /\ prefs.pwSec # ""

\* C28, as stated: when setup() has loaded the store, hasCredentials is true
\* and the main task goes on to scan exactly when the store holds valid =
\* true and four non-empty fields; otherwise hasCredentials is false and the
\* main task goes to loop() with no scan and no attempt.
C28_StartupNeedsCompleteSet ==
    [][(pcMain = "setup" /\ pcMain' # "setup")
          => (/\ hasCredentials' <=> StoreComplete
              /\ (pcMain' = "scan") <=> StoreComplete
              /\ ~StoreComplete => (pcMain' = "loop" /\ sta' = <<>>))]_vars


(***************************************************************************)
(* Signals set during a pass, checked under SpecFair.                      *)
(***************************************************************************)
\* the main task is inside a pass of loop(), and the branch it is in shows
\* that an event handler has run since the pass tested the flags: it is in
\* the scan branch, taken with isConnected false, and gotIP has set
\* isConnected, or it is in the status branch, taken with isConnected true,
\* and lostCon has cleared it
SignalledInPass ==
    /\ mainRet = "clear"
    /\ \/ pcMain \in {"scan", "scanning", "connect", "begin"} /\ isConnected
       \/ pcMain \in {"take", "give"} /\ ~isConnected

\* C29, as stated: a transition signalled while the main task is inside a
\* pass is acted on by a later pass: the main task comes back to the top of
\* loop() with connStatusChanged still set.
C29_NoSignalLost ==
    SignalledInPass ~> (pcMain = "loop" /\ connStatusChanged)

(***************************************************************************)
(* The credentials of an attempt, checked under SpecCtl.                   *)
(***************************************************************************)
\* C30, as stated: the SSID handed to WiFi.begin is one the scan of this
\* connection cycle matched, that is, one that occurs in the scan result,
\* and the password handed with it is the one of the same pair.
C30_AttemptFromOneSet ==
    [][(Len(sta') > Len(sta))
          => (/\ \E i \in 1..Len(wifiAps) :
                    wifiAps[i].ssid = sta'[Len(sta')].ssid
              /\ <<sta'[Len(sta')].ssid, sta'[Len(sta')].pw>>
                    \in {<<ssidPrim, pwPrim>>, <<ssidSec, pwSec>>})]_vars

(***************************************************************************)
(* Registration of the event handlers                                      *)
(***************************************************************************)
\* C31, as stated: gotIP and lostCon are registered with the network stack
\* at most once each, so the event task never owes an event more than one
\* run of its handler, however often connectWiFi has been called.
C31_RegisteredOnce ==
    /\ nHandlers <= 1
    /\ evLeft <= 1

(***************************************************************************)
(* The controller on a steady network: the flash holds a credential set,   *)
(* every scan lists the candidate "B", which both credential sets name,    *)
(* no attempt fails and no association is lost unless the program itself   *)
(* calls WiFi.disconnect.  A client may write one credential set.          *)
(***************************************************************************)
\* what WiFi.scanNetworks returns while "B" is in range
SteadyScans ==
    {r \in ScanFound(MaxScanConc, {"A", "B"}, {-50}, {3}) :
        \E i \in 1..r.n : r.aps[i].ssid = "B"}

\* the steps of the main task with such scans
MainSteady ==
    \/ SetupLoad
    \/ ScanStart
    \/ ScanEnd(SteadyScans)
    \/ ConnectWiFiTeardown(MaxRegistrations)
    \/ ConnectWiFiBegin
    \/ LoopCheck
    \/ LoopTake
    \/ LoopGive
    \/ LoopClear

InitSteady == InitWith({Stored(<<"A", "p", "B", "q">>)})

NextSteady ==
    \/ MainSteady
    \/ EvtStep
    \/ StaGotIP
    \/ BleConnect
    \/ OnWriteCred(ConcWrites)
    \/ OnWriteCredEnd

\* every task that can take a step is scheduled in the end, and the
\* network stack answers an attempt that is left alone with an address
SpecSteady ==
    /\ InitSteady
    /\ [][NextSteady]_vars
    /\ WF_vars(MainSteady)
    /\ WF_vars(EvtStep)
    /\ WF_vars(OnWriteCredEnd)
    /\ WF_vars(StaGotIP)

\* C32, as stated: with a credential set present, a candidate always in
\* range and every undisturbed attempt answered with an address, the
\* controller in the end has isConnected true and keeps it true.
C32_ConnectsForGood == <>[]isConnected

(***************************************************************************)
(* The two callers of actualWiFiScan, checked under SpecUnits.             *)
(***************************************************************************)
\* C33, as stated: the scan started by the list read handler and the scan
\* started by setup or the main loop are never in progress at the same
\* time.
C33_ScansNeverOverlap == ~(pcMain = "scanning" /\ pcBle = "listScan")

=============================================================================
